---- MODULE Spec2Model ----
(***************************************************************************)
(* A model of ReverseIterableSet (src/src/reverse-iterable-set.ts): an     *)
(* insertion-ordered set kept as a Map from values to nodes plus a doubly  *)
(* linked chain of nodes, with iterators that walk the chain forwards or   *)
(* backwards.                                                              *)
(*                                                                         *)
(* Encoding of JavaScript values.  An element value is a one-element       *)
(* tuple <<i>>, the JavaScript value `undefined` is the empty tuple <<>>,  *)
(* and the pair [v, v] produced by entries() is the tuple <<v, v>>.  Node  *)
(* references are the positions 1..Len(heap) of the nodes in the heap;     *)
(* `null` is 0 and an `undefined` node reference is -1.                    *)
(***************************************************************************)
EXTENDS Integers, Sequences, FiniteSets, TLC

\* The number of distinct defined element values the callers pass in.
MaxValue == 2
\* The number of nodes that are ever constructed in one run.
MaxNodes == 3
\* The number of iterators that are ever created in one run.
MaxIterators == 1
\* The number of nodes that are ever constructed in a run that steps iterators.
MaxCursorNodes == 2
\* The length of the iterable handed to the constructor.
MaxSource == 3
\* The number of iterators and of nodes in a run of two iterators side by side.
MaxFrameIterators == 2
MaxFrameNodes == 2

VARIABLES
    heap,       \* every ReverseIterableSetNode constructed so far, live or not
    setMap,     \* this._setMap: value -> node reference
    firstNode,  \* this._firstNode
    lastNode,   \* this._lastNode
    iterators,  \* the closures returned by _iterableIterator
    lastOp,     \* the last call made on the set or on an iterator, and its return value
    iterable,   \* the argument of the constructor
    pending,    \* the elements of iterable the constructor's loop has not reached
    passed,     \* history: the values handed to add and addFirst so far
    cursorLog   \* history of each iterator: was it advanced, has it reported done

vars == <<heap, setMap, firstNode, lastNode, iterators, lastOp,
          iterable, pending, passed, cursorLog>>

\* The constructor's argument and loop position.
ctorVars == <<iterable, pending>>

\* The iterators and their history.
itVars == <<iterators, cursorLog>>

setVars == <<heap, setMap, firstNode, lastNode>>

----------------------------------------------------------------------------
\* JavaScript values

undefined == <<>>

null == 0

undefinedNode == -1

Values == {undefined} \cup {<<i>> : i \in 1..MaxValue}

\* new ReverseIterableSetNode(value)
ReverseIterableSetNode(v) == [value |-> v, nextNode |-> null, prevNode |-> null]

\* The reference the next constructed node gets.
NewRef(h) == Len(h) + 1

----------------------------------------------------------------------------
\* The Map this._setMap

MapHas(m, v) == v \in DOMAIN m

MapGet(m, v) == IF v \in DOMAIN m THEN m[v] ELSE undefinedNode

MapSet(m, v, n) == [x \in (DOMAIN m) \cup {v} |-> IF x = v THEN n ELSE m[x]]

MapDelete(m, v) == [x \in (DOMAIN m) \ {v} |-> m[x]]

MapClear == [x \in {} |-> null]

\* has(value)
has(v) == MapHas(setMap, v)

\* get size()
size == Cardinality(DOMAIN setMap)

----------------------------------------------------------------------------
\* add(value): the heap, map and references after the call

\* add(value) that links the node the value has already behind the last node
\* instead of returning early.
addHeap_relinksPresent(v) ==
    LET node == IF has(v) THEN setMap[v] ELSE NewRef(heap)
        h1 == IF has(v) THEN heap ELSE Append(heap, ReverseIterableSetNode(v))
    IN  IF lastNode # null
        THEN [h1 EXCEPT ![node].prevNode = lastNode,
                        ![lastNode].nextNode = node]
        ELSE h1

\* add(value) with the back link of the new node forgotten.
addHeap_noPrevLink(v) ==
    IF has(v) THEN heap
    ELSE LET node == NewRef(heap)
             h1 == Append(heap, ReverseIterableSetNode(v))
         IN  IF lastNode # null
             THEN [h1 EXCEPT ![lastNode].nextNode = node]
             ELSE h1

addHeap(v) ==
    IF has(v) THEN heap
    ELSE LET node == NewRef(heap)
             h1 == Append(heap, ReverseIterableSetNode(v))
         IN  IF lastNode # null
             THEN [h1 EXCEPT ![node].prevNode = lastNode,
                             ![lastNode].nextNode = node]
             ELSE h1

addMap(v) == IF has(v) THEN setMap ELSE MapSet(setMap, v, NewRef(heap))

\* add(value) that returns what Map.prototype.set returns, the map, when it
\* has put the value in.
addReturn_returnsMap(v) == IF has(v) THEN "this" ELSE "this._setMap"

\* return this
addReturn(v) == "this"

addFirstNode(v) ==
    IF has(v) THEN firstNode
    ELSE IF firstNode = null THEN NewRef(heap) ELSE firstNode

addLastNode(v) == IF has(v) THEN lastNode ELSE NewRef(heap)

\* addFirst(value): the heap, map and references after the call

\* addFirst(value) without the has(value) test: a node is constructed and
\* linked in front even when the value has one.
addFirstHeap_noHasCheck(v) ==
    LET node == NewRef(heap)
        h1 == Append(heap, ReverseIterableSetNode(v))
    IN  IF firstNode # null
        THEN [h1 EXCEPT ![node].nextNode = firstNode,
                        ![firstNode].prevNode = node]
        ELSE h1

addFirstHeap(v) ==
    IF has(v) THEN heap
    ELSE LET node == NewRef(heap)
             h1 == Append(heap, ReverseIterableSetNode(v))
         IN  IF firstNode # null
             THEN [h1 EXCEPT ![node].nextNode = firstNode,
                             ![firstNode].prevNode = node]
             ELSE h1

\* addFirst(value) that constructs and links the node but does not put it
\* into the map.
addFirstMap_noSet(v) == setMap

addFirstMap(v) == IF has(v) THEN setMap ELSE MapSet(setMap, v, NewRef(heap))

\* return this
addFirstReturn(v) == "this"

addFirstLastNode(v) ==
    IF has(v) THEN lastNode
    ELSE IF lastNode = null THEN NewRef(heap) ELSE lastNode

addFirstFirstNode(v) == IF has(v) THEN firstNode ELSE NewRef(heap)

----------------------------------------------------------------------------
\* delete(value): the heap, map, references and return value of the call

\* delete(value) that leaves the nextNode of the node before the last node
\* alone when the last node is deleted.
deleteHeap_lastKeepsNext(v) ==
    LET node == MapGet(setMap, v) IN
    IF node = undefinedNode THEN heap
    ELSE LET p == heap[node].prevNode
             n == heap[node].nextNode
         IN  IF p # null /\ n # null
             THEN [heap EXCEPT ![p].nextNode = n, ![n].prevNode = p]
             ELSE IF p # null
             THEN heap
             ELSE IF n # null
             THEN [heap EXCEPT ![n].prevNode = null]
             ELSE heap

deleteHeap(v) ==
    LET node == MapGet(setMap, v) IN
    IF node = undefinedNode THEN heap
    ELSE LET p == heap[node].prevNode
             n == heap[node].nextNode
         IN  IF p # null /\ n # null
             THEN [heap EXCEPT ![p].nextNode = n, ![n].prevNode = p]
             ELSE IF p # null
             THEN [heap EXCEPT ![p].nextNode = null]
             ELSE IF n # null
             THEN [heap EXCEPT ![n].prevNode = null]
             ELSE heap

\* delete(value) without the early return: a value without a node is treated
\* like the only node.
deleteFirstNode_noEarlyReturn(v) ==
    LET node == MapGet(setMap, v) IN
    IF node = undefinedNode THEN null
    ELSE LET p == heap[node].prevNode
             n == heap[node].nextNode
         IN  IF p # null /\ n # null THEN firstNode
             ELSE IF p # null THEN firstNode
             ELSE IF n # null THEN n
             ELSE null

deleteFirstNode(v) ==
    LET node == MapGet(setMap, v) IN
    IF node = undefinedNode THEN firstNode
    ELSE LET p == heap[node].prevNode
             n == heap[node].nextNode
         IN  IF p # null /\ n # null THEN firstNode
             ELSE IF p # null THEN firstNode
             ELSE IF n # null THEN n
             ELSE null

\* delete(value) that unsets only the first node reference when the node is
\* the first and last node.
deleteLastNode_soleKeepsLast(v) ==
    LET node == MapGet(setMap, v) IN
    IF node = undefinedNode THEN lastNode
    ELSE LET p == heap[node].prevNode
             n == heap[node].nextNode
         IN  IF p # null /\ n # null THEN lastNode
             ELSE IF p # null THEN p
             ELSE lastNode

deleteLastNode(v) ==
    LET node == MapGet(setMap, v) IN
    IF node = undefinedNode THEN lastNode
    ELSE LET p == heap[node].prevNode
             n == heap[node].nextNode
         IN  IF p # null /\ n # null THEN lastNode
             ELSE IF p # null THEN p
             ELSE IF n # null THEN lastNode
             ELSE null

\* delete(value) that unlinks the node but leaves it in the map.
deleteMap_keepsEntry(v) == setMap

deleteMap(v) == MapDelete(setMap, v)

\* Map.prototype.delete returns whether the key was present.
deleteReturn(v) ==
    IF MapGet(setMap, v) = undefinedNode THEN FALSE ELSE MapHas(setMap, v)

----------------------------------------------------------------------------
\* Iterators

\* const getIteratorValue = node => node.value        (values, iteratorFor)
\* const getIteratorValue = node => [node.value, node.value]     (entries)
getIteratorValue(kind, node) ==
    IF kind = "entries" THEN <<node.value, node.value>> ELSE node.value

\* iteratorResult(value)
iteratorResult(v) == [value |-> v, done |-> (v = undefined)]

\* _iterableIterator(getIteratorValue, startNode): the closure's variables
iterableIterator(kind, startNode) ==
    [ getIteratorValue |-> kind,
      startNode   |-> startNode,
      lastNode    |-> lastNode,
      currentNode |-> IF startNode # undefinedNode THEN startNode ELSE firstNode,
      forwards    |-> TRUE ]

\* reverseIterator() that only turns the direction and goes on from the node
\* the iterator is at.
itReverseIterator_fromCurrent(it) == [it EXCEPT !.forwards = FALSE]

\* reverseIterator() that leaves an iterator alone that has run off the chain.
itReverseIterator_keepsExhausted(it) ==
    IF it.currentNode = null THEN it
    ELSE [it EXCEPT !.currentNode = IF it.startNode # undefinedNode
                                    THEN it.startNode ELSE it.lastNode,
                    !.forwards = FALSE]

\* reverseIterator() that turns the direction around: backwards becomes
\* forwards again.
itReverseIterator_flips(it) ==
    [it EXCEPT !.currentNode = IF it.startNode # undefinedNode
                               THEN it.startNode ELSE it.lastNode,
               !.forwards = ~it.forwards]

\* The closure after its reverseIterator() is called.
itReverseIterator(it) ==
    [it EXCEPT !.currentNode = IF it.startNode # undefinedNode
                               THEN it.startNode ELSE it.lastNode,
               !.forwards = FALSE]

\* The value next() passes to iteratorResult, reading the nodes in heap h.
itNextValue(h, it) ==
    IF it.currentNode # null
    THEN getIteratorValue(it.getIteratorValue, h[it.currentNode])
    ELSE undefined

\* The closure after its next() is called.
itNextState(h, it) ==
    IF it.currentNode # null
    THEN [it EXCEPT !.currentNode = IF it.forwards
                                    THEN h[it.currentNode].nextNode
                                    ELSE h[it.currentNode].prevNode]
    ELSE it

\* next()
itNext(h, it) == iteratorResult(itNextValue(h, it))

\* [...iterator]: the values of the results of next() up to the first
\* result whose done is true.  fuel bounds the number of next() calls.
RECURSIVE spread(_, _, _)
spread(h, it, fuel) ==
    LET r == itNext(h, it) IN
    IF r.done \/ fuel = 0 THEN <<>>
    ELSE <<r.value>> \o spread(h, itNextState(h, it), fuel - 1)

\* The closure after [...iterator]: after the next() call whose result has
\* done true.
RECURSIVE spreadState(_, _, _)
spreadState(h, it, fuel) ==
    IF itNext(h, it).done \/ fuel = 0 THEN itNextState(h, it)
    ELSE spreadState(h, itNextState(h, it), fuel - 1)

\* More next() calls than there are nodes to visit.
Fuel == Len(heap) + 1

\* this[Symbol.iterator]() with the iterator Map.prototype[Symbol.iterator]
\* gives, the one of entries().
SymbolIterator_ofEntries == iterableIterator("entries", undefinedNode)

\* this[Symbol.iterator](): return this.values()
SymbolIterator == iterableIterator("values", undefinedNode)

\* [...this]
spreadSet == spread(heap, SymbolIterator, Fuel)

\* [...this.values()]
spreadValues == spread(heap, iterableIterator("values", undefinedNode), Fuel)

\* [...this.reverseIterator()]
spreadReverseIterator ==
    spread(heap, itReverseIterator(iterableIterator("values", undefinedNode)), Fuel)

\* [...this.iteratorFor(v)]
spreadIteratorFor(v) ==
    spread(heap, iterableIterator("values", MapGet(setMap, v)), Fuel)

\* [...this.iteratorFor(v).reverseIterator()]
spreadIteratorForReverse(v) ==
    spread(heap, itReverseIterator(iterableIterator("values", MapGet(setMap, v))), Fuel)

\* [...this.entries()]
spreadEntries == spread(heap, iterableIterator("entries", undefinedNode), Fuel)

\* [...this.entries().reverseIterator()]
spreadEntriesReverse ==
    spread(heap, itReverseIterator(iterableIterator("entries", undefinedNode)), Fuel)

\* The callbacks handed to forEach and forEachReverse, by what they do to
\* the set: nothing (op "none"), or one call set[op](value) made when the
\* callback is called for the at-th time.
CallbackAt == {1, 2}

\* The callback that leaves the set alone.
NoCall == [at |-> 0, op |-> "none", value |-> undefined]

Callbacks ==
    {NoCall}
        \cup [at : CallbackAt, op : {"add", "addFirst", "delete"}, value : Values]
        \cup [at : CallbackAt, op : {"clear"}, value : {undefined}]

\* The set's fields as they are now.
thisSet ==
    [heap |-> heap, setMap |-> setMap, firstNode |-> firstNode, lastNode |-> lastNode]

\* The set's fields after the call the callback cb makes on the set.
callbackSet(cb) ==
    CASE cb.op = "add" ->
            [heap |-> addHeap(cb.value), setMap |-> addMap(cb.value),
             firstNode |-> addFirstNode(cb.value), lastNode |-> addLastNode(cb.value)]
      [] cb.op = "addFirst" ->
            [heap |-> addFirstHeap(cb.value), setMap |-> addFirstMap(cb.value),
             firstNode |-> addFirstFirstNode(cb.value),
             lastNode |-> addFirstLastNode(cb.value)]
      [] cb.op = "delete" ->
            [heap |-> deleteHeap(cb.value), setMap |-> deleteMap(cb.value),
             firstNode |-> deleteFirstNode(cb.value),
             lastNode |-> deleteLastNode(cb.value)]
      [] cb.op = "clear" ->
            [heap |-> heap, setMap |-> MapClear, firstNode |-> null, lastNode |-> null]
      [] OTHER -> thisSet

\* The first n rounds of for (const x of iterator): the values of the
\* results of next() and the closure after them; all tells whether the
\* loop got as far as n rounds.
RECURSIVE loopRounds(_, _, _)
loopRounds(h, it, n) ==
    IF n = 0 THEN [values |-> <<>>, it |-> it, all |-> TRUE]
    ELSE LET r == itNext(h, it) IN
         IF r.done THEN [values |-> <<>>, it |-> itNextState(h, it), all |-> FALSE]
         ELSE LET rest == loopRounds(h, itNextState(h, it), n - 1) IN
              [values |-> <<r.value>> \o rest.values, it |-> rest.it, all |-> rest.all]

\* for (const x of iterator) callbackfn(x): the values the loop hands to the
\* callback, the set's fields after the loop, and whether the callback made
\* its call on the set.  The callback runs between two next() calls: up to
\* the round in which it calls the set, next() reads the nodes as they are
\* now, after it the nodes the call has left.
forEachLoop(it, cb) ==
    LET before == loopRounds(heap, it, cb.at) IN
    IF cb.op = "none" \/ ~before.all
    THEN [values |-> spread(heap, it, Fuel), set |-> thisSet, called |-> FALSE]
    ELSE LET after == callbackSet(cb) IN
         [values |-> before.values
                        \o spread(after.heap, before.it, Len(after.heap) + 1),
          set |-> after, called |-> TRUE]

\* forEach(callbackfn, thisArg): for (const [value1, value2] of this.entries())
\* callbackfn.call(thisArg, value2, value1, this)
forEachRun(cb) == forEachLoop(iterableIterator("entries", undefinedNode), cb)

\* forEachReverse(callbackfn, thisArg): the same over
\* this.entries().reverseIterator()
forEachReverseRun(cb) ==
    forEachLoop(itReverseIterator(iterableIterator("entries", undefinedNode)), cb)

\* callbackfn.call(thisArg, value2, value1, this) for each [value1, value2]
\* of pairs
callbackCalls(thisArg, pairs) ==
    [i \in 1..Len(pairs) |->
        [this |-> thisArg, args |-> <<pairs[i][2], pairs[i][1], "this">>]]

\* The values handed to forEach and forEachReverse as thisArg.
ThisArgs == {undefined, <<1>>}

\* The iterables handed to the constructor.
RECURSIVE SeqsUpTo(_, _)
SeqsUpTo(S, n) ==
    IF n = 0 THEN {<<>>}
    ELSE LET shorter == SeqsUpTo(S, n - 1)
         IN  shorter \cup {Append(q, x) : q \in shorter, x \in S}

Sources == SeqsUpTo(Values, MaxSource)

----------------------------------------------------------------------------
\* The order of the elements, read off the nodes without an iterator

\* The node references met by following nextNode from n, at most fuel of them.
RECURSIVE walkNext(_, _, _)
walkNext(h, n, fuel) ==
    IF n = null \/ fuel = 0 THEN <<>>
    ELSE <<n>> \o walkNext(h, h[n].nextNode, fuel - 1)

\* The node references met by following prevNode from n, at most fuel of them.
RECURSIVE walkPrev(_, _, _)
walkPrev(h, n, fuel) ==
    IF n = null \/ fuel = 0 THEN <<>>
    ELSE <<n>> \o walkPrev(h, h[n].prevNode, fuel - 1)

\* The chain: the nodes reachable from the first node.  A walk that does not
\* end is cut off after one more node than was ever constructed.
Chain == walkNext(heap, firstNode, Len(heap) + 1)

\* The values in insertion order, read off the chain.
ChainValues == [i \in 1..Len(Chain) |-> heap[Chain[i]].value]

\* History kept for an iterator at its creation: the value its reverseIterator()
\* goes back to.  For iteratorFor(v) with v in the set that is v, otherwise
\* the last element of the set at that moment, if there is one.
OriginOf(v) ==
    IF has(v) THEN [some |-> TRUE, value |-> v]
    ELSE IF ChainValues # <<>>
         THEN [some |-> TRUE, value |-> ChainValues[Len(ChainValues)]]
         ELSE [some |-> FALSE, value |-> undefined]

\* A value no set holds: the argument of a creation without a start value.
NoValue == <<0>>

\* appended: the nodes add() has put behind the chain since the iterator was
\* created.
NewCursorLog(v) ==
    [advanced |-> FALSE, exhausted |-> FALSE, origin |-> OriginOf(v), appended |-> {}]

\* The histories after add(v).
LogAppended(v) ==
    [j \in DOMAIN cursorLog |->
        [cursorLog[j] EXCEPT !.appended = IF has(v) THEN @ ELSE @ \cup {NewRef(heap)}]]

\* What a caller can see of the set: size, membership, the forward and the
\* reverse array, and the first and the last element (none on an empty set).
Observable ==
    [size    |-> size,
     members |-> DOMAIN setMap,
     forward |-> spreadValues,
     reverse |-> spreadReverseIterator,
     first   |-> IF firstNode = null THEN <<>> ELSE <<heap[firstNode].value>>,
     last    |-> IF lastNode = null THEN <<>> ELSE <<heap[lastNode].value>>]

\* History kept with delete(v): the call before it was the add(v) or
\* addFirst(v) that put v into the set.
Undoes(v) ==
    /\ lastOp.op \in {"add", "addFirst"}
    /\ lastOp.value = v
    /\ v \notin lastOp.before.members

----------------------------------------------------------------------------
\* The state after construction without an iterable.

Init ==
    /\ heap = <<>>
    /\ setMap = MapClear
    /\ firstNode = null
    /\ lastNode = null
    /\ iterators = <<>>
    /\ lastOp = [op |-> "constructor", value |-> undefined, it |-> 0, ret |-> "this"]
    /\ iterable = <<>>
    /\ pending = <<>>
    /\ passed = {}
    /\ cursorLog = <<>>

add(v) ==
    /\ has(v) \/ Len(heap) < MaxNodes
    /\ heap' = addHeap(v)
    /\ setMap' = addMap(v)
    /\ firstNode' = addFirstNode(v)
    /\ lastNode' = addLastNode(v)
    /\ lastOp' = [op |-> "add", value |-> v, it |-> 0, ret |-> addReturn(v),
                  before |-> Observable]
    /\ passed' = passed \cup {v}
    /\ cursorLog' = LogAppended(v)
    /\ UNCHANGED <<iterators, ctorVars>>

addFirst(v) ==
    /\ has(v) \/ Len(heap) < MaxNodes
    /\ heap' = addFirstHeap(v)
    /\ setMap' = addFirstMap(v)
    /\ firstNode' = addFirstFirstNode(v)
    /\ lastNode' = addFirstLastNode(v)
    /\ lastOp' = [op |-> "addFirst", value |-> v, it |-> 0, ret |-> addFirstReturn(v),
                  before |-> Observable]
    /\ passed' = passed \cup {v}
    /\ UNCHANGED <<itVars, ctorVars>>

delete(v) ==
    /\ heap' = deleteHeap(v)
    /\ setMap' = deleteMap(v)
    /\ firstNode' = deleteFirstNode(v)
    /\ lastNode' = deleteLastNode(v)
    /\ lastOp' = [op |-> "delete", value |-> v, it |-> 0, ret |-> deleteReturn(v),
                  undoes |-> Undoes(v)]
    /\ UNCHANGED <<itVars, ctorVars, passed>>

\* clear() that forgets to unset the last node reference.
clear_keepsLastNode ==
    /\ setMap' = MapClear
    /\ firstNode' = null
    /\ lastNode' = lastNode
    /\ lastOp' = [op |-> "clear", value |-> undefined, it |-> 0, ret |-> undefined,
                  had |-> DOMAIN setMap]
    /\ UNCHANGED <<heap, itVars, ctorVars, passed>>

clear ==
    /\ setMap' = MapClear
    /\ firstNode' = null
    /\ lastNode' = null
    /\ lastOp' = [op |-> "clear", value |-> undefined, it |-> 0, ret |-> undefined,
                  had |-> DOMAIN setMap]
    /\ UNCHANGED <<heap, itVars, ctorVars, passed>>

\* values()
values ==
    /\ iterators' = Append(iterators, iterableIterator("values", undefinedNode))
    /\ lastOp' = [op |-> "values", value |-> undefined,
                  it |-> Len(iterators) + 1, ret |-> Len(iterators) + 1]
    /\ cursorLog' = Append(cursorLog, NewCursorLog(NoValue))
    /\ UNCHANGED <<setVars, ctorVars, passed>>

\* entries()
entries ==
    /\ iterators' = Append(iterators, iterableIterator("entries", undefinedNode))
    /\ lastOp' = [op |-> "entries", value |-> undefined,
                  it |-> Len(iterators) + 1, ret |-> Len(iterators) + 1]
    /\ cursorLog' = Append(cursorLog, NewCursorLog(NoValue))
    /\ UNCHANGED <<setVars, ctorVars, passed>>

\* iteratorFor(value)
iteratorFor(v) ==
    /\ iterators' = Append(iterators,
                           iterableIterator("values", MapGet(setMap, v)))
    /\ lastOp' = [op |-> "iteratorFor", value |-> v,
                  it |-> Len(iterators) + 1, ret |-> Len(iterators) + 1]
    /\ cursorLog' = Append(cursorLog, NewCursorLog(v))
    /\ UNCHANGED <<setVars, ctorVars, passed>>

\* reverseIterator() of the set: this.values().reverseIterator()
reverseIterator ==
    /\ iterators' = Append(iterators,
           itReverseIterator(iterableIterator("values", undefinedNode)))
    /\ lastOp' = [op |-> "reverseIterator", value |-> undefined,
                  it |-> Len(iterators) + 1, ret |-> Len(iterators) + 1]
    /\ cursorLog' = Append(cursorLog, NewCursorLog(NoValue))
    /\ UNCHANGED <<setVars, ctorVars, passed>>

\* reverseIterator() of the iterator i; it returns the iterator itself
iteratorReverseIterator(i) ==
    /\ iterators' = [iterators EXCEPT ![i] = itReverseIterator(iterators[i])]
    /\ lastOp' = [op |-> "iterator.reverseIterator", value |-> undefined,
                  it |-> i, ret |-> i,
                  from |-> iterators[i].currentNode,
                  wasExhausted |-> cursorLog[i].exhausted,
                  wasForwards |-> iterators[i].forwards]
    /\ cursorLog' = [cursorLog EXCEPT ![i].exhausted = FALSE]
    /\ UNCHANGED <<setVars, ctorVars, passed>>

\* next() with the position kept in one place for all iterators of the set:
\* a step of one iterator moves every iterator.
iteratorNext_sharedPosition(i) ==
    /\ iterators' = [j \in DOMAIN iterators |-> itNextState(heap, iterators[j])]
    /\ lastOp' = [op |-> "iterator.next", value |-> undefined,
                  it |-> i, ret |-> itNext(heap, iterators[i])]
    /\ cursorLog' = [cursorLog EXCEPT
           ![i].advanced = @ \/ iterators[i].currentNode # null,
           ![i].exhausted = @ \/ itNext(heap, iterators[i]).done]
    /\ UNCHANGED <<setVars, ctorVars, passed>>

\* next() of the iterator i
iteratorNext(i) ==
    /\ iterators' = [iterators EXCEPT ![i] = itNextState(heap, iterators[i])]
    /\ lastOp' = [op |-> "iterator.next", value |-> undefined,
                  it |-> i, ret |-> itNext(heap, iterators[i])]
    /\ cursorLog' = [cursorLog EXCEPT
           ![i].advanced = @ \/ iterators[i].currentNode # null,
           ![i].exhausted = @ \/ itNext(heap, iterators[i]).done]
    /\ UNCHANGED <<setVars, ctorVars, passed>>

\* [Symbol.iterator]() of the iterator i: return this
iteratorSymbolIterator(i) ==
    /\ lastOp' = [op |-> "iterator[Symbol.iterator]", value |-> undefined,
                  it |-> i, ret |-> i]
    /\ UNCHANGED <<setVars, itVars, ctorVars, passed>>

\* const array = [...iterator] for the iterator i: iterator[Symbol.iterator]()
\* and then next() until a result has done true
arrayOfIterator(i) ==
    /\ iterators' = [iterators EXCEPT ![i] = spreadState(heap, iterators[i], Fuel)]
    /\ lastOp' = [op |-> "[...iterator]", value |-> undefined,
                  it |-> i, ret |-> spread(heap, iterators[i], Fuel)]
    /\ cursorLog' = [cursorLog EXCEPT
           ![i].advanced = @ \/ iterators[i].currentNode # null,
           ![i].exhausted = TRUE]
    /\ UNCHANGED <<setVars, ctorVars, passed>>

\* has(value)
callHas(v) ==
    /\ lastOp' = [op |-> "has", value |-> v, it |-> 0, ret |-> has(v)]
    /\ UNCHANGED <<setVars, itVars, ctorVars, passed>>

\* set.size
getSize ==
    /\ lastOp' = [op |-> "size", value |-> undefined, it |-> 0, ret |-> size]
    /\ UNCHANGED <<setVars, itVars, ctorVars, passed>>

\* const array = [...set]
arrayOfSet ==
    /\ lastOp' = [op |-> "[...set]", value |-> undefined, it |-> 0,
                  ret |-> spreadSet]
    /\ UNCHANGED <<setVars, itVars, ctorVars, passed>>

\* const array = [...set.values()]
arrayOfValues ==
    /\ lastOp' = [op |-> "[...values()]", value |-> undefined, it |-> 0,
                  ret |-> spreadValues]
    /\ UNCHANGED <<setVars, itVars, ctorVars, passed>>

\* const array = [...set.reverseIterator()]
arrayOfReverseIterator ==
    /\ lastOp' = [op |-> "[...reverseIterator()]", value |-> undefined, it |-> 0,
                  ret |-> spreadReverseIterator]
    /\ UNCHANGED <<setVars, itVars, ctorVars, passed>>

\* const array = [...set.iteratorFor(v)]
arrayOfIteratorFor(v) ==
    /\ lastOp' = [op |-> "[...iteratorFor()]", value |-> v, it |-> 0,
                  ret |-> spreadIteratorFor(v)]
    /\ UNCHANGED <<setVars, itVars, ctorVars, passed>>

\* const array = [...set.iteratorFor(v).reverseIterator()]
arrayOfIteratorForReverse(v) ==
    /\ lastOp' = [op |-> "[...iteratorFor().reverseIterator()]", value |-> v, it |-> 0,
                  ret |-> spreadIteratorForReverse(v)]
    /\ UNCHANGED <<setVars, itVars, ctorVars, passed>>

\* const array = [...set.entries()]
arrayOfEntries ==
    /\ lastOp' = [op |-> "[...entries()]", value |-> undefined, it |-> 0,
                  ret |-> spreadEntries]
    /\ UNCHANGED <<setVars, itVars, ctorVars, passed>>

\* const array = [...set.entries().reverseIterator()]
arrayOfEntriesReverse ==
    /\ lastOp' = [op |-> "[...entries().reverseIterator()]", value |-> undefined,
                  it |-> 0, ret |-> spreadEntriesReverse]
    /\ UNCHANGED <<setVars, itVars, ctorVars, passed>>

\* A callback's add or addFirst of a new value needs room for its node.
callbackFits(cb) ==
    cb.op \in {"add", "addFirst"} => (has(cb.value) \/ Len(heap) < MaxNodes)

\* The values handed to add and addFirst, the callback's call included.
callbackPassed(cb, called) ==
    IF called /\ cb.op \in {"add", "addFirst"} THEN passed \cup {cb.value}
    ELSE passed

\* The histories of the iterators after the callback's call: an add appends
\* as the caller's add does.
callbackCursorLog(cb, called) ==
    IF called /\ cb.op = "add" THEN LogAppended(cb.value) ELSE cursorLog

\* forEach(callbackfn, thisArg), the callback's calls on the set included
forEach(thisArg, cb) ==
    /\ callbackFits(cb)
    /\ LET run == forEachRun(cb) IN
        /\ heap' = run.set.heap
        /\ setMap' = run.set.setMap
        /\ firstNode' = run.set.firstNode
        /\ lastNode' = run.set.lastNode
        /\ lastOp' = [op |-> "forEach", value |-> thisArg, it |-> 0,
                      ret |-> undefined,
                      calls |-> callbackCalls(thisArg, run.values)]
        /\ passed' = callbackPassed(cb, run.called)
        /\ cursorLog' = callbackCursorLog(cb, run.called)
    /\ UNCHANGED <<iterators, ctorVars>>

\* forEachReverse(callbackfn, thisArg), the callback's calls on the set
\* included
forEachReverse(thisArg, cb) ==
    /\ callbackFits(cb)
    /\ LET run == forEachReverseRun(cb) IN
        /\ heap' = run.set.heap
        /\ setMap' = run.set.setMap
        /\ firstNode' = run.set.firstNode
        /\ lastNode' = run.set.lastNode
        /\ lastOp' = [op |-> "forEachReverse", value |-> thisArg, it |-> 0,
                      ret |-> undefined,
                      calls |-> callbackCalls(thisArg, run.values)]
        /\ passed' = callbackPassed(cb, run.called)
        /\ cursorLog' = callbackCursorLog(cb, run.called)
    /\ UNCHANGED <<iterators, ctorVars>>

\* The calls on the set alone: the mutations and the complete traversals,
\* forEach and forEachReverse with a callback that leaves the set alone.
Next ==
    \/ \E v \in Values : add(v)
    \/ \E v \in Values : addFirst(v)
    \/ \E v \in Values : delete(v)
    \/ clear
    \/ arrayOfValues
    \/ arrayOfReverseIterator
    \/ \E v \in Values : arrayOfIteratorFor(v)
    \/ \E v \in Values : arrayOfIteratorForReverse(v)
    \/ arrayOfEntries
    \/ arrayOfEntriesReverse
    \/ \E thisArg \in ThisArgs : forEach(thisArg, NoCall)
    \/ \E thisArg \in ThisArgs : forEachReverse(thisArg, NoCall)
    \/ arrayOfSet

Spec == Init /\ [][Next]_vars

\* The mutations, and forEach and forEachReverse with the callbacks that
\* call the set.
NextForEach ==
    \/ \E v \in Values : add(v)
    \/ \E v \in Values : addFirst(v)
    \/ \E v \in Values : delete(v)
    \/ clear
    \/ \E thisArg \in ThisArgs, cb \in Callbacks : forEach(thisArg, cb)
    \/ \E thisArg \in ThisArgs, cb \in Callbacks : forEachReverse(thisArg, cb)

SpecForEach == Init /\ [][NextForEach]_vars

\* Only add and addFirst calls on a set constructed empty.
NextAdds ==
    \/ \E v \in Values : add(v)
    \/ \E v \in Values : addFirst(v)

SpecAdds == Init /\ [][NextAdds]_vars

\* new ReverseIterableSet(iterable): the state when the loop over iterable
\* begins.
InitConstructor ==
    /\ heap = <<>>
    /\ setMap = MapClear
    /\ firstNode = null
    /\ lastNode = null
    /\ iterators = <<>>
    /\ iterable \in Sources
    /\ pending = iterable
    /\ lastOp = [op |-> "new", value |-> undefined, it |-> 0, ret |-> "this"]
    /\ passed = {}
    /\ cursorLog = <<>>

\* One round of the constructor's loop: this.add(element)
constructorAdd ==
    /\ pending # <<>>
    /\ LET element == Head(pending) IN
        /\ heap' = addHeap(element)
        /\ setMap' = addMap(element)
        /\ firstNode' = addFirstNode(element)
        /\ lastNode' = addLastNode(element)
        /\ passed' = passed \cup {element}
        /\ lastOp' = [op |-> "constructor", value |-> element, it |-> 0, ret |-> "this"]
    /\ pending' = Tail(pending)
    /\ UNCHANGED <<itVars, iterable>>

\* The constructor has returned.
Constructed == pending = <<>>

\* The constructor, then reads of the set it made.
NextConstructor ==
    \/ constructorAdd
    \/ Constructed /\ arrayOfValues
    \/ Constructed /\ arrayOfReverseIterator

SpecConstructor == InitConstructor /\ [][NextConstructor]_vars

\* The calls on the set and on iterators that are stepped one next() at a time.
NextIterators ==
    \/ \E v \in Values : (has(v) \/ Len(heap) < MaxCursorNodes) /\ add(v)
    \/ \E v \in Values : (has(v) \/ Len(heap) < MaxCursorNodes) /\ addFirst(v)
    \/ \E v \in Values : delete(v)
    \/ clear
    \/ Len(iterators) < MaxIterators /\ values
    \/ Len(iterators) < MaxIterators /\ entries
    \/ \E v \in Values : Len(iterators) < MaxIterators /\ iteratorFor(v)
    \/ Len(iterators) < MaxIterators /\ reverseIterator
    \/ \E i \in 1..Len(iterators) : iteratorReverseIterator(i)
    \/ \E i \in 1..Len(iterators) : iteratorNext(i)
    \/ \E i \in 1..Len(iterators) : iteratorSymbolIterator(i)
    \/ \E i \in 1..Len(iterators) : arrayOfIterator(i)

SpecIterators == Init /\ [][NextIterators]_vars

\* Values appended to the set, two iterators on it, and the calls that only
\* read.
NextFrame ==
    \/ \E v \in Values : (has(v) \/ Len(heap) < MaxFrameNodes) /\ add(v)
    \/ \E v \in Values : callHas(v)
    \/ getSize
    \/ Len(iterators) < MaxFrameIterators /\ values
    \/ Len(iterators) < MaxFrameIterators /\ entries
    \/ \E v \in Values : Len(iterators) < MaxFrameIterators /\ iteratorFor(v)
    \/ Len(iterators) < MaxFrameIterators /\ reverseIterator
    \/ \E i \in 1..Len(iterators) : iteratorReverseIterator(i)
    \/ \E i \in 1..Len(iterators) : iteratorNext(i)

SpecFrame == Init /\ [][NextFrame]_vars

----------------------------------------------------------------------------
\* What the properties below speak about

\* The live nodes: the nodes the map holds.
Live == {setMap[v] : v \in DOMAIN setMap}

Reverse(s) == [i \in 1..Len(s) |-> s[Len(s) + 1 - i]]

Remove(s, v) == SelectSeq(s, LAMBDA x : x # v)

IndexOf(s, v) == CHOOSE i \in 1..Len(s) : s[i] = v

\* The last call was add(v) or addFirst(v), and v has a node.
Added == lastOp.op \in {"add", "addFirst"} /\ has(lastOp.value)

----------------------------------------------------------------------------
\* C1: After any sequence of add, addFirst, delete and clear from the empty
\* set, has(v) is true exactly when one and only one node reachable from the
\* first node holds v, and size equals the number of indexed values and the
\* length of the chain.
C1_IndexMatchesChain ==
    /\ \A v \in Values :
          has(v) <=> Cardinality({i \in 1..Len(Chain) : heap[Chain[i]].value = v}) = 1
    /\ size = Cardinality({v \in Values : has(v)})
    /\ size = Len(Chain)

\* A node was deleted from a chain of three and two remain.
C1_Witness ==
    /\ lastOp.op = "delete" /\ lastOp.ret = TRUE
    /\ size = 2 /\ Len(Chain) = 2 /\ Len(heap) >= 3

\* C2: After any sequence of add, addFirst, delete and clear the live chain
\* is acyclic and doubly consistent: for live nodes n and m, n.nextNode = m
\* exactly when m.prevNode = n; the links of live nodes lead to live nodes,
\* and following them in either direction ends.
C2_ChainDoublyConsistent ==
    /\ \A n \in Live : \A m \in Live :
          (heap[n].nextNode = m) <=> (heap[m].prevNode = n)
    /\ \A n \in Live : heap[n].nextNode \in Live \cup {null}
    /\ \A n \in Live : heap[n].prevNode \in Live \cup {null}
    /\ \A n \in Live : Len(walkNext(heap, n, Len(heap) + 1)) <= size
    /\ \A n \in Live : Len(walkPrev(heap, n, Len(heap) + 1)) <= size

\* A value was added to a chain next to which a removed node still exists.
C2_Witness ==
    /\ Added /\ size >= 2 /\ Len(heap) > size
    /\ \E n \in Live : heap[n].nextNode # null

\* C3: In every reachable state the first node has no predecessor, the last
\* node has no successor, and each of the first and last references is null
\* exactly when size is 0; deleting the only element resets both.
C3_EndsOfChain ==
    /\ firstNode # null => heap[firstNode].prevNode = null
    /\ lastNode # null => heap[lastNode].nextNode = null
    /\ (firstNode = null) <=> (size = 0)
    /\ (lastNode = null) <=> (size = 0)

\* The only element of the set was deleted.
C3_Witness ==
    /\ lastOp.op = "delete" /\ lastOp.ret = TRUE
    /\ size = 0 /\ Len(heap) >= 1
    /\ firstNode = null /\ lastNode = null

\* C4: For any value v not in the set, after add(v) the array [...values()]
\* is the array before the call followed by v.
C4_AddAppends ==
    [][ (lastOp'.op = "add" /\ ~has(lastOp'.value))
            => spreadValues' = Append(spreadValues, lastOp'.value) ]_vars

\* C5: For any value v already in the set, add(v) and addFirst(v) change
\* nothing: [...values()], [...reverseIterator()], the order of the chain and
\* size are as before.
C5_AddPresentIsNoOp ==
    [][ (lastOp'.op \in {"add", "addFirst"} /\ has(lastOp'.value))
            => /\ spreadValues' = spreadValues
               /\ spreadReverseIterator' = spreadReverseIterator
               /\ ChainValues' = ChainValues
               /\ Chain' = Chain
               /\ size' = size ]_vars

\* addFirst(v) was called with the value of the last of several nodes, or
\* add(v) with the value of the first: v has stayed where it was.
C5_Witness ==
    /\ size >= 2 /\ Added
    /\ \/ lastOp.op = "addFirst" /\ setMap[lastOp.value] = lastNode
       \/ lastOp.op = "add" /\ setMap[lastOp.value] = firstNode

\* C6: For any value v in the set, delete(v) returns true, afterwards has(v)
\* is false, size is one less and [...values()] is the array before the call
\* without v.
C6_DeleteRemoves ==
    [][ (lastOp'.op = "delete" /\ has(lastOp'.value))
            => /\ lastOp'.ret = TRUE
               /\ ~MapHas(setMap', lastOp'.value)
               /\ size' = size - 1
               /\ spreadValues' = Remove(spreadValues, lastOp'.value) ]_vars

\* C7: For any value v not in the set, delete(v) returns false and leaves
\* size, membership, the forward and reverse order and the first and last
\* references as they were.
C7_DeleteAbsent ==
    [][ (lastOp'.op = "delete" /\ ~has(lastOp'.value))
            => /\ lastOp'.ret = FALSE
               /\ size' = size
               /\ setMap' = setMap
               /\ heap' = heap
               /\ spreadValues' = spreadValues
               /\ spreadReverseIterator' = spreadReverseIterator
               /\ firstNode' = firstNode
               /\ lastNode' = lastNode ]_vars

\* delete(v) returned false on a set that holds other values.
C7_Witness ==
    /\ lastOp.op = "delete" /\ lastOp.ret = FALSE
    /\ ~has(lastOp.value) /\ size >= 2

\* C8: In every reachable state [...reverseIterator()] is the reverse of
\* [...values()].
C8_ReverseMirrorsForward ==
    lastOp.op = "[...reverseIterator()]" => lastOp.ret = Reverse(spreadValues)

\* C9: For any value v in the set, [...iteratorFor(v)] is v followed by the
\* values after v in insertion order up to the last.
C9_IteratorForSuffix ==
    (lastOp.op = "[...iteratorFor()]" /\ has(lastOp.value))
        => lastOp.ret = SubSeq(ChainValues, IndexOf(ChainValues, lastOp.value),
                               Len(ChainValues))

\* C10: For any value v in the set, [...iteratorFor(v).reverseIterator()] is
\* v followed by the values before v in reverse insertion order down to the
\* first.
C10_IteratorForReversePrefix ==
    (lastOp.op = "[...iteratorFor().reverseIterator()]" /\ has(lastOp.value))
        => lastOp.ret = Reverse(SubSeq(ChainValues, 1,
                                       IndexOf(ChainValues, lastOp.value)))

----------------------------------------------------------------------------
\* The traversals of sets that do not hold `undefined`.  iteratorResult
\* reports done for the value `undefined`, so a traversal stops at a node that
\* holds it; the statements above about [...values()] and the other arrays
\* hold of the sets without that value.

NoUndefined == ~has(undefined)

\* add(v) of an absent defined v to a set without undefined appends v.
AddAppends_Defined ==
    [][ (lastOp'.op = "add" /\ ~has(lastOp'.value)
            /\ lastOp'.value # undefined /\ NoUndefined)
            => spreadValues' = Append(spreadValues, lastOp'.value) ]_vars

\* delete(v) of a present v from a set without undefined removes v alone.
DeleteRemoves_Defined ==
    [][ (lastOp'.op = "delete" /\ has(lastOp'.value) /\ NoUndefined)
            => /\ lastOp'.ret = TRUE
               /\ ~MapHas(setMap', lastOp'.value)
               /\ size' = size - 1
               /\ spreadValues' = Remove(spreadValues, lastOp'.value) ]_vars

\* The arrays of a set without undefined: the forward array is the chain's
\* values, the reverse array its mirror, and iteratorFor(v) starts at v.
Traversals_Defined ==
    NoUndefined =>
        /\ spreadValues = ChainValues
        /\ spreadReverseIterator = Reverse(spreadValues)
        /\ \A v \in DOMAIN setMap :
              /\ spreadIteratorFor(v)
                   = SubSeq(ChainValues, IndexOf(ChainValues, v), Len(ChainValues))
              /\ spreadIteratorForReverse(v)
                   = Reverse(SubSeq(ChainValues, 1, IndexOf(ChainValues, v)))

----------------------------------------------------------------------------
\* Iterators stepped one next() at a time

\* The last call was reverseIterator() on an iterator, or next() on one.
Reversed == lastOp.op = "iterator.reverseIterator"

Stepped == lastOp.op = "iterator.next"

\* The result next() gives at the value an iterator's history names as the
\* one its reverseIterator() goes back to.
OriginResult(i) ==
    LET o == cursorLog[i].origin IN
    IF ~o.some THEN iteratorResult(undefined)
    ELSE IF iterators[i].getIteratorValue = "entries"
         THEN iteratorResult(<<o.value, o.value>>)
         ELSE iteratorResult(o.value)

\* C11: For any value v not in the set, the first next() of iteratorFor(v)
\* returns done = true and no value, also when the set is not empty.
C11_IteratorForAbsentExhausted ==
    [][ (lastOp.op = "iteratorFor" /\ ~has(lastOp.value)
            /\ lastOp'.op = "iterator.next" /\ lastOp'.it = lastOp.it)
            => (lastOp'.ret.done /\ lastOp'.ret.value = undefined) ]_vars

\* iteratorFor(v) of an absent v on an empty set is exhausted at once.
IteratorForAbsent_EmptySet ==
    [][ (lastOp.op = "iteratorFor" /\ ~has(lastOp.value) /\ size = 0
            /\ lastOp'.op = "iterator.next" /\ lastOp'.it = lastOp.it)
            => (lastOp'.ret.done /\ lastOp'.ret.value = undefined) ]_vars

\* iteratorFor(v) of an absent v is the iterator values() gives.
IteratorForAbsent_IsValues ==
    \A v \in Values : ~has(v) => spreadIteratorFor(v) = spreadValues

\* C12: Once next() of an iterator has returned done = true, every later
\* next() of it returns done = true, whatever add, addFirst, delete and clear
\* calls are made in between.
C12_ExhaustionSticky ==
    \A i \in 1..Len(iterators) :
        cursorLog[i].exhausted => itNext(heap, iterators[i]).done

\* No node was ever constructed for the value undefined.
NoUndefinedNode == \A n \in 1..Len(heap) : heap[n].value # undefined

\* Exhaustion is sticky as long as no node holds undefined.
ExhaustionSticky_Defined ==
    NoUndefinedNode =>
        \A i \in 1..Len(iterators) :
            cursorLog[i].exhausted
                => (iterators[i].currentNode = null /\ itNext(heap, iterators[i]).done)

\* C13 as stated: reverseIterator() on an iterator that next() has advanced
\* and that still is at a node goes on backwards from that node.
C13_ReverseFromCurrentNode ==
    [][ \A i \in 1..Len(iterators) :
          (lastOp'.op = "iterator.reverseIterator" /\ lastOp'.it = i
              /\ cursorLog[i].advanced /\ iterators[i].currentNode # null)
          => /\ ~iterators'[i].forwards
             /\ itNextValue(heap', iterators'[i]) = itNextValue(heap, iterators[i]) ]_vars

\* C13, amended: reverseIterator() on an iterator that next() has advanced
\* and that still is at a node starts the backward walk anew: the next step
\* gives the value iteratorFor was called with, or for values() and entries()
\* the element that was last when the iterator was created; the position
\* reached by next() is given up.
C13_ReverseRestartsAtOrigin ==
    [][ \A i \in 1..Len(iterators) :
          (lastOp'.op = "iterator.reverseIterator" /\ lastOp'.it = i
              /\ cursorLog[i].advanced /\ iterators[i].currentNode # null)
          => /\ ~iterators'[i].forwards
             /\ itNext(heap', iterators'[i]) = OriginResult(i)' ]_vars

\* An advanced iterator was reversed while at a node, and is at another now.
C13_Witness ==
    /\ Reversed
    /\ cursorLog[lastOp.it].advanced
    /\ lastOp.from # null
    /\ iterators[lastOp.it].currentNode # lastOp.from
    /\ ~itNext(heap, iterators[lastOp.it]).done

\* C14 as stated: reverseIterator() on an iterator that has returned
\* done = true leaves it exhausted.
C14_ReverseKeepsExhausted ==
    [][ \A i \in 1..Len(iterators) :
          (lastOp'.op = "iterator.reverseIterator" /\ lastOp'.it = i
              /\ cursorLog[i].exhausted)
          => itNext(heap', iterators'[i]).done ]_vars

\* C14, amended: reverseIterator() on an iterator that has returned
\* done = true starts it anew like any other: its next step gives the value
\* iteratorFor was called with, or the element that was last when the
\* iterator was created; it reports done again only when there is no such
\* element or that element is undefined.
C14_ReverseRevivesExhausted ==
    [][ \A i \in 1..Len(iterators) :
          (lastOp'.op = "iterator.reverseIterator" /\ lastOp'.it = i
              /\ cursorLog[i].exhausted)
          => /\ ~iterators'[i].forwards
             /\ itNext(heap', iterators'[i]) = OriginResult(i)' ]_vars

\* An iterator that had reported done was reversed and has a value to give.
C14_Witness ==
    /\ Reversed
    /\ lastOp.wasExhausted
    /\ lastOp.from = null
    /\ ~itNext(heap, iterators[lastOp.it]).done

----------------------------------------------------------------------------
\* Prepending, clearing, counting, constructing, forEach and entries

\* The elements of s in the order of their first occurrence.
RECURSIVE FirstOccurrences(_)
FirstOccurrences(s) ==
    IF s = <<>> THEN <<>>
    ELSE LET front == FirstOccurrences(SubSeq(s, 1, Len(s) - 1))
             x == s[Len(s)]
         IN  IF \E i \in 1..Len(front) : front[i] = x THEN front
             ELSE Append(front, x)

Range(s) == {s[i] : i \in 1..Len(s)}

\* The pair [v, v] for each v of s.
Pairs(s) == [i \in 1..Len(s) |-> <<s[i], s[i]>>]

\* One callback call (value, value, set) with the given receiver for each v of s.
CallsFor(s, thisArg) ==
    [i \in 1..Len(s) |-> [this |-> thisArg, args |-> <<s[i], s[i], "this">>]]

\* C15: For any value v not in the set, after addFirst(v) the array
\* [...values()] is v followed by the array before the call; on an empty set
\* v becomes both the first and the last element.
C15_AddFirstPrepends ==
    [][ (lastOp'.op = "addFirst" /\ ~has(lastOp'.value))
            => /\ spreadValues' = <<lastOp'.value>> \o spreadValues
               /\ size = 0 => (firstNode' # null /\ firstNode' = lastNode'
                                /\ heap'[firstNode'].value = lastOp'.value) ]_vars

\* addFirst(v) of an absent defined v to a set without undefined prepends v;
\* in every case the new node is put in front of the chain.
AddFirstPrepends_Defined ==
    [][ (lastOp'.op = "addFirst" /\ ~has(lastOp'.value))
            => /\ ChainValues' = <<lastOp'.value>> \o ChainValues
               /\ (lastOp'.value # undefined /\ NoUndefined)
                     => spreadValues' = <<lastOp'.value>> \o spreadValues
               /\ size = 0 => (firstNode' # null /\ firstNode' = lastNode'
                                /\ heap'[firstNode'].value = lastOp'.value) ]_vars

\* C16: After clear() size is 0, has(v) is false for every value that was
\* in the set, [...values()] and [...reverseIterator()] are empty, the map and
\* the first and last references are as after construction, and an add(v) or
\* addFirst(v) that follows makes the set of the one element v, as on a set
\* constructed empty.
C16_ClearResets ==
    [][ /\ lastOp'.op = "clear"
            => /\ size' = 0
               /\ \A v \in lastOp'.had : ~MapHas(setMap', v)
               /\ \A v \in Values : ~MapHas(setMap', v)
               /\ spreadValues' = <<>>
               /\ spreadReverseIterator' = <<>>
               /\ spreadEntries' = <<>>
               /\ setMap' = MapClear /\ firstNode' = null /\ lastNode' = null
        /\ (lastOp.op = "clear" /\ lastOp'.op \in {"add", "addFirst"})
            => /\ size' = 1
               /\ MapHas(setMap', lastOp'.value)
               /\ ChainValues' = <<lastOp'.value>>
               /\ firstNode' = lastNode'
               /\ heap'[firstNode'] = ReverseIterableSetNode(lastOp'.value) ]_vars

\* A set of two or more elements was cleared.
C16_Witness ==
    /\ lastOp.op = "clear"
    /\ Cardinality(lastOp.had) >= 2
    /\ size = 0 /\ Len(heap) >= 2

\* C17: After any sequence of add and addFirst calls on a set constructed
\* empty, size is the number of distinct values passed in those calls.
C17_SizeCountsDistinct == size = Cardinality(passed)

\* A value was passed a second time, to a set of two or more elements.
C17_Witness ==
    /\ Added /\ size >= 2 /\ Cardinality(passed) >= 2
    /\ \/ lastOp.op = "add" /\ setMap[lastOp.value] # lastNode
       \/ lastOp.op = "addFirst" /\ setMap[lastOp.value] # firstNode

\* C18: A set constructed from an iterable is the set made by add of each
\* element in order: [...values()] is the distinct elements of the iterable in
\* the order of their first occurrence and size is their number.
C18_ConstructorIsAdds ==
    (Constructed /\ lastOp.op = "[...values()]")
        => /\ lastOp.ret = FirstOccurrences(iterable)
           /\ size = Cardinality(Range(iterable))

\* The set the constructor makes: the chain holds the distinct elements of the
\* iterable in the order of their first occurrence, every round of the loop
\* is an add, and [...values()] is that order when undefined is no element.
Constructor_Chain ==
    Constructed
        => /\ ChainValues = FirstOccurrences(iterable)
           /\ size = Cardinality(Range(iterable))
           /\ passed = Range(iterable)
           /\ undefined \notin Range(iterable)
                 => spreadValues = FirstOccurrences(iterable)

\* C19: With a callback that leaves the set as it is, forEach calls it once
\* for each element of [...values()] in that order with (value, value, set),
\* and forEachReverse once for each element of [...reverseIterator()] in that
\* order; on an empty set there is no call.
C19_ForEachOrder ==
    [][ (lastOp'.op \in {"forEach", "forEachReverse"} /\ setVars' = setVars)
        => /\ lastOp'.op = "forEach"
                 => lastOp'.calls = CallsFor(spreadValues, lastOp'.value)
           /\ lastOp'.op = "forEachReverse"
                 => lastOp'.calls = CallsFor(spreadReverseIterator, lastOp'.value)
           /\ size = 0 => lastOp'.calls = <<>> ]_vars

\* With a callback that leaves the set as it is, forEach calls it once for
\* each element in insertion order and forEachReverse in reverse insertion
\* order, undefined included.
ForEach_InsertionOrder ==
    [][ (lastOp'.op \in {"forEach", "forEachReverse"} /\ setVars' = setVars)
        => /\ lastOp'.op = "forEach"
                 => lastOp'.calls = CallsFor(ChainValues, lastOp'.value)
           /\ lastOp'.op = "forEachReverse"
                 => lastOp'.calls = CallsFor(Reverse(ChainValues), lastOp'.value) ]_vars

\* A callback that removes an element not yet visited is not called for it;
\* one that appends an element during a forward loop is called for it too,
\* unless the loop had already read the end of the chain.
ForEach_CallbackCalls ==
    [][ (lastOp'.op = "forEach" /\ setVars' # setVars)
        => /\ size' < size
                 => Len(lastOp'.calls) \in size' .. size
           /\ size' > size
                 => Len(lastOp'.calls) \in size .. size' ]_vars

\* C20: [...entries()] is the pair [v, v] for each v of [...values()], in
\* the same order and number, and [...entries().reverseIterator()] is the
\* pairs in the order of [...reverseIterator()].
C20_EntriesMirrorValues ==
    /\ lastOp.op = "[...entries()]" => lastOp.ret = Pairs(spreadValues)
    /\ lastOp.op = "[...entries().reverseIterator()]"
          => lastOp.ret = Pairs(spreadReverseIterator)

\* entries() gives the pair of every element in insertion order; it agrees
\* with values() on the sets without undefined.
Entries_InsertionOrder ==
    /\ spreadEntries = Pairs(ChainValues)
    /\ spreadEntriesReverse = Pairs(Reverse(ChainValues))
    /\ NoUndefined => /\ spreadEntries = Pairs(spreadValues)
                      /\ spreadEntriesReverse = Pairs(spreadReverseIterator)

----------------------------------------------------------------------------
\* Iterators as iterables, default iteration, return values, done

\* C21: An iterator is single-use: its [Symbol.iterator]() returns the
\* iterator itself and leaves its position alone, so [...iterator] taken again
\* right after it was taken is empty, while a new values() on the set, which
\* the iteration has not changed, gives all elements again.
C21_CursorSingleUse ==
    [][ /\ lastOp'.op = "iterator[Symbol.iterator]"
            => (lastOp'.ret = lastOp'.it /\ iterators' = iterators)
        /\ (lastOp.op = "[...iterator]" /\ lastOp'.op = "[...iterator]"
                /\ lastOp'.it = lastOp.it)
            => lastOp'.ret = <<>>
        /\ lastOp'.op = "[...iterator]"
            => (setVars' = setVars /\ spreadValues' = ChainValues') ]_vars

\* [Symbol.iterator]() of an iterator changes nothing, and as long as no node
\* holds undefined an iterator that was iterated to its end is off the chain
\* and gives nothing when iterated again, while a new values() gives all.
CursorSingleUse_Defined ==
    [][ /\ lastOp'.op = "iterator[Symbol.iterator]"
            => (lastOp'.ret = lastOp'.it /\ iterators' = iterators)
        /\ (lastOp'.op = "[...iterator]" /\ NoUndefinedNode)
            => /\ iterators'[lastOp'.it].currentNode = null
               /\ spread(heap', iterators'[lastOp'.it], Fuel') = <<>>
               /\ setVars' = setVars
               /\ spreadValues' = ChainValues' ]_vars

\* C22: In every state of the set, [...set] (the default iteration through
\* [Symbol.iterator]()) gives the same results as [...set.values()], and the
\* iterator it walks is the one values() returns.
C22_DefaultIterationIsValues ==
    /\ SymbolIterator = iterableIterator("values", undefinedNode)
    /\ spreadSet = spreadValues
    /\ lastOp.op = "[...set]" => lastOp.ret = spreadValues

\* [...set] was taken of a set of two or more elements and gave them.
C22_Witness ==
    /\ lastOp.op = "[...set]"
    /\ Len(lastOp.ret) >= 2
    /\ lastOp.ret = ChainValues

\* C23: add(v) and addFirst(v) return the set they were called on, both when
\* v was put in and when v was in the set already.
C23_AddReturnsThis ==
    lastOp.op \in {"add", "addFirst"} => lastOp.ret = "this"

\* add(v) was called with the value of the first of three elements.
C23_Witness ==
    /\ lastOp.op = "add" /\ lastOp.ret = "this"
    /\ size = 3 /\ Len(heap) = 3
    /\ has(lastOp.value) /\ setMap[lastOp.value] = firstNode

\* C24: A next() that visits an element returns done = false, whatever the
\* element's value, undefined included; done = true is returned only by an
\* iterator that has walked off the chain, so [...values()] gives every
\* element of a set that holds undefined.
C24_DoneOnlyOffChain ==
    [][ /\ \A i \in 1..Len(iterators) :
              (lastOp'.op = "iterator.next" /\ lastOp'.it = i)
                  => (lastOp'.ret.done <=> iterators[i].currentNode = null)
        /\ spreadValues' = ChainValues' ]_vars

\* next() at a node whose value is not undefined returns that value with
\* done = false, off the chain it returns done = true, and the set without
\* undefined is traversed completely.
DoneOnlyOffChain_Defined ==
    [][ /\ \A i \in 1..Len(iterators) :
              (lastOp'.op = "iterator.next" /\ lastOp'.it = i)
                  => /\ iterators[i].currentNode = null => lastOp'.ret.done
                     /\ (iterators[i].currentNode # null
                            /\ heap[iterators[i].currentNode].value # undefined)
                          => ~lastOp'.ret.done
        /\ NoUndefined' => spreadValues' = ChainValues' ]_vars

\* C25 as stated: reverseIterator() of an iterator turns its direction into
\* the opposite one, so that on an iterator that walks backwards it makes the
\* iterator walk forwards again.
C25_ReverseFlipsDirection ==
    [][ \A i \in 1..Len(iterators) :
          (lastOp'.op = "iterator.reverseIterator" /\ lastOp'.it = i)
          => iterators'[i].forwards = ~iterators[i].forwards ]_vars

\* C25, amended: reverseIterator() of an iterator makes it walk backwards
\* whatever its direction was.  On an iterator that walks backwards already
\* it starts the backward walk anew at the iterator's origin, a second
\* reverseIterator() right after changes nothing more, and no call makes an
\* iterator that walks backwards walk forwards again.
C25_ReverseAlwaysBackward ==
    [][ \A i \in 1..Len(iterators) :
          /\ (lastOp'.op = "iterator.reverseIterator" /\ lastOp'.it = i)
                => /\ ~iterators'[i].forwards
                   /\ itReverseIterator(iterators'[i]) = iterators'[i]
          /\ (lastOp'.op = "iterator.reverseIterator" /\ lastOp'.it = i
                /\ ~iterators[i].forwards)
                => itNext(heap', iterators'[i]) = OriginResult(i)'
          /\ ~iterators[i].forwards => ~iterators'[i].forwards ]_vars

\* An iterator that walked backwards and had left its origin was reversed:
\* it walks backwards still, and from the origin again.
C25_Witness ==
    /\ Reversed
    /\ ~lastOp.wasForwards
    /\ ~iterators[lastOp.it].forwards
    /\ lastOp.from # iterators[lastOp.it].currentNode
    /\ ~itNext(heap, iterators[lastOp.it]).done

\* The calls that only read the set.
ReadOps ==
    {"has", "size", "values", "entries", "iteratorFor", "reverseIterator",
     "iterator.next", "iterator.reverseIterator"}

\* C26: has, size, the creation of an iterator (values, entries, iteratorFor,
\* reverseIterator) and next() and reverseIterator() of an iterator leave the
\* set's membership, order, size and first and last node as they were, and a
\* next() or reverseIterator() of one iterator leaves the position and
\* direction of every other iterator as they were.
C26_ReadsLeaveSetAlone ==
    [][ lastOp'.op \in ReadOps
            => /\ setMap' = setMap
               /\ heap' = heap
               /\ Chain' = Chain
               /\ size' = size
               /\ firstNode' = firstNode
               /\ lastNode' = lastNode
               /\ \A j \in 1..Len(iterators) :
                     j # lastOp'.it => iterators'[j] = iterators[j] ]_vars

\* One of two iterators that are at different nodes was stepped.
C26_Witness ==
    /\ Stepped
    /\ Len(iterators) = 2
    /\ size >= 2
    /\ ~lastOp.ret.done
    /\ iterators[1].currentNode # iterators[2].currentNode
    /\ iterators[3 - lastOp.it].currentNode # null

----------------------------------------------------------------------------
\* Iterators and calls that change the set in between

\* What an iterator of the given kind yields for the value v.
Yield(kind, v) == IF kind = "entries" THEN <<v, v>> ELSE v

\* The nodes a backward walk from node n passes.
NodesBack(h, n) == Range(walkPrev(h, n, Len(h) + 1))

\* C27: If the value of the node an iterator is at is removed by delete() or
\* clear(), then, with nothing else done to the set, the iterator's next()
\* still yields that value, and the iterator goes on with the node that was
\* the removed node's neighbour in its direction: the removed node keeps its
\* nextNode and prevNode.
C27_StepAfterRemoval ==
    [][ \A i \in 1..Len(iterators) :
          LET c == iterators[i].currentNode IN
          (lastOp'.op \in {"delete", "clear"} /\ c # null /\ c \in Live /\ c \notin Live')
          => LET r == itNext(heap', iterators'[i])
                 after == itNextState(heap', iterators'[i])
             IN  /\ ~r.done
                 /\ r.value = Yield(iterators[i].getIteratorValue, heap[c].value)
                 /\ after.currentNode = IF iterators[i].forwards
                                        THEN heap[c].nextNode ELSE heap[c].prevNode
                 /\ heap'[c] = heap[c] ]_vars

\* The node an iterator is at keeps its value and links when it is removed,
\* and the iterator goes on from it to its former neighbour; next() yields
\* the removed value with done = false unless that value is undefined.
StepAfterRemoval_Defined ==
    [][ \A i \in 1..Len(iterators) :
          LET c == iterators[i].currentNode IN
          (lastOp'.op \in {"delete", "clear"} /\ c # null /\ c \in Live /\ c \notin Live')
          => LET r == itNext(heap', iterators'[i])
                 after == itNextState(heap', iterators'[i])
             IN  /\ (heap[c].value # undefined
                        \/ iterators[i].getIteratorValue = "entries") => ~r.done
                 /\ r.value = Yield(iterators[i].getIteratorValue, heap[c].value)
                 /\ after.currentNode = IF iterators[i].forwards
                                        THEN heap[c].nextNode ELSE heap[c].prevNode
                 /\ heap'[c] = heap[c] ]_vars

\* C28: reverseIterator() of an iterator made without a start node (values(),
\* entries()) starts the backward walk at the node that was the set's last
\* node when the iterator was created: the value that was last then is
\* yielded first, also when it was deleted in between, and no node that
\* add() has appended since the creation is visited.
C28_ReverseFromCreationLast ==
    [][ \A i \in 1..Len(iterators) :
          (lastOp'.op = "iterator.reverseIterator" /\ lastOp'.it = i
              /\ iterators[i].startNode = undefinedNode)
          => /\ iterators'[i].currentNode = iterators[i].lastNode
             /\ cursorLog[i].origin.some
                  => /\ ~itNext(heap', iterators'[i]).done
                     /\ itNext(heap', iterators'[i]).value
                          = Yield(iterators[i].getIteratorValue,
                                  cursorLog[i].origin.value)
             /\ ~cursorLog[i].origin.some => itNext(heap', iterators'[i]).done
             /\ NodesBack(heap', iterators'[i].currentNode)
                    \cap cursorLog[i].appended = {} ]_vars

\* reverseIterator() of an iterator made without a start node goes to the
\* node that was last at the creation and passes no node appended since;
\* the value that was last then is yielded first unless it is undefined.
ReverseFromCreationLast_Defined ==
    [][ \A i \in 1..Len(iterators) :
          (lastOp'.op = "iterator.reverseIterator" /\ lastOp'.it = i
              /\ iterators[i].startNode = undefinedNode)
          => /\ iterators'[i].currentNode = iterators[i].lastNode
             /\ cursorLog[i].origin.some
                  => /\ heap[iterators[i].lastNode].value = cursorLog[i].origin.value
                     /\ (cursorLog[i].origin.value # undefined
                            \/ iterators[i].getIteratorValue = "entries")
                          => ~itNext(heap', iterators'[i]).done
                     /\ itNext(heap', iterators'[i]).value
                          = Yield(iterators[i].getIteratorValue,
                                  cursorLog[i].origin.value)
             /\ ~cursorLog[i].origin.some => itNext(heap', iterators'[i]).done
             /\ NodesBack(heap', iterators'[i].currentNode)
                    \cap cursorLog[i].appended = {} ]_vars

\* C29: An iterator's next position is fixed at its creation and at each
\* step.  A forward iterator that is off the chain (created on an empty set,
\* or past the element that was last) reports done on its next step also
\* after add() has appended values; a forward iterator that is at an element
\* of the set yields a value that add() appends afterwards.
C29_PositionFixedAtStep ==
    [][ \A i \in 1..Len(iterators) :
          (lastOp'.op = "add" /\ ~has(lastOp'.value) /\ iterators[i].forwards)
          => /\ iterators[i].currentNode = null
                  => /\ itNext(heap', iterators'[i]).done
                     /\ spread(heap', iterators'[i], Fuel') = <<>>
             /\ (iterators[i].currentNode # null /\ iterators[i].currentNode \in Live)
                  => Yield(iterators[i].getIteratorValue, lastOp'.value)
                        \in Range(spread(heap', iterators'[i], Fuel')) ]_vars

\* The same for the sets and appended values without undefined; the appended
\* node is always on the forward walk of an iterator at an element of the set.
PositionFixedAtStep_Defined ==
    [][ \A i \in 1..Len(iterators) :
          (lastOp'.op = "add" /\ ~has(lastOp'.value) /\ iterators[i].forwards)
          => /\ iterators[i].currentNode = null
                  => /\ itNext(heap', iterators'[i]).done
                     /\ spread(heap', iterators'[i], Fuel') = <<>>
             /\ (iterators[i].currentNode # null /\ iterators[i].currentNode \in Live)
                  => /\ lastNode' \in Range(walkNext(heap', iterators'[i].currentNode,
                                                     Len(heap') + 1))
                     /\ (NoUndefined' \/ iterators[i].getIteratorValue = "entries")
                          => Yield(iterators[i].getIteratorValue, lastOp'.value)
                                \in Range(spread(heap', iterators'[i], Fuel')) ]_vars

\* An iterator at any node or off the chain, in either direction.
Cursors ==
    [getIteratorValue : {"values", "entries"}, startNode : {undefinedNode},
     lastNode : {lastNode}, currentNode : 0..Len(heap), forwards : BOOLEAN]

\* next() of the iterator returns done = true within fuel + 1 calls.
RECURSIVE doneWithin(_, _, _)
doneWithin(h, it, fuel) ==
    \/ itNext(h, it).done
    \/ fuel > 0 /\ doneWithin(h, itNextState(h, it), fuel - 1)

\* C30: In every reachable state next() called again and again on an
\* iterator, wherever it is and whichever way it walks, returns done = true
\* after at most one call more than there are nodes: the nextNode links and
\* the prevNode links over the nodes in the set and the removed ones form no
\* cycle.
C30_LinksAcyclic ==
    /\ \A n \in 1..Len(heap) :
          /\ Len(walkNext(heap, n, Len(heap) + 1)) <= Len(heap)
          /\ Len(walkPrev(heap, n, Len(heap) + 1)) <= Len(heap)
    /\ \A it \in Cursors : doneWithin(heap, it, Len(heap))

\* A removed node still points to another removed node while the set has
\* elements.
C30_Witness ==
    /\ size >= 1
    /\ \E n \in 1..Len(heap) :
          /\ n \notin Live
          /\ heap[n].nextNode # null
          /\ heap[n].nextNode \notin Live

\* The iterators that exist reach done after at most one call more than there
\* are nodes, whatever calls came before.
IteratorsTerminate ==
    \A i \in 1..Len(iterators) : doneWithin(heap, iterators[i], Len(heap))

----------------------------------------------------------------------------
\* add and delete as inverses

\* C31: For any value v not in the set, add(v) followed by delete(v), and
\* addFirst(v) followed by delete(v), bring back what could be seen of the
\* set before: size, membership, [...values()], [...reverseIterator()] and
\* the first and last element.
C31_AddDeleteRestores ==
    [][ (lastOp.op \in {"add", "addFirst"}
            /\ lastOp.value \notin lastOp.before.members
            /\ lastOp'.op = "delete" /\ lastOp'.value = lastOp.value)
        => /\ lastOp'.ret = TRUE
           /\ Observable' = lastOp.before
           /\ ChainValues' = Remove(ChainValues, lastOp.value) ]_vars

\* A value was put at an end of a set of two elements and deleted again.
C31_Witness ==
    /\ lastOp.op = "delete" /\ lastOp.ret = TRUE
    /\ lastOp.undoes
    /\ size = 2 /\ Len(heap) = 3

----------------------------------------------------------------------------
\* The ES-module variant src/src/reverse-iterable-set.mjs.  Its nodes name
\* their links next and prev; they are kept in the fields nextNode and
\* prevNode of the nodes of heap.  Its add and addInFront look the node of the
\* value up and link it whether it is new or not.

\* add(value) of the .mjs: the heap, map and references after the call
mjsAddHeap(v) ==
    LET node == IF has(v) THEN setMap[v] ELSE NewRef(heap)
        h1 == IF has(v) THEN heap ELSE Append(heap, ReverseIterableSetNode(v))
    IN  IF firstNode = null /\ lastNode = null THEN h1
        ELSE [h1 EXCEPT ![node].prevNode = lastNode,
                        ![lastNode].nextNode = node]

mjsAddMap(v) == IF has(v) THEN setMap ELSE MapSet(setMap, v, NewRef(heap))

mjsAddFirstNode(v) ==
    IF firstNode = null /\ lastNode = null
    THEN (IF has(v) THEN setMap[v] ELSE NewRef(heap))
    ELSE firstNode

mjsAddLastNode(v) == IF has(v) THEN setMap[v] ELSE NewRef(heap)

\* addInFront(value) of the .mjs: the heap, map and references after the call
addInFrontHeap(v) ==
    LET node == IF has(v) THEN setMap[v] ELSE NewRef(heap)
        h1 == IF has(v) THEN heap ELSE Append(heap, ReverseIterableSetNode(v))
    IN  IF firstNode = null /\ lastNode = null THEN h1
        ELSE [h1 EXCEPT ![node].nextNode = firstNode,
                        ![firstNode].prevNode = node]

addInFrontMap(v) == IF has(v) THEN setMap ELSE MapSet(setMap, v, NewRef(heap))

addInFrontFirstNode(v) == IF has(v) THEN setMap[v] ELSE NewRef(heap)

addInFrontLastNode(v) ==
    IF firstNode = null /\ lastNode = null
    THEN (IF has(v) THEN setMap[v] ELSE NewRef(heap))
    ELSE lastNode

\* delete(value) of the .mjs picks the case by the first and last node
\* references, not by the links of the node.  It throws a TypeError where
\* the link it reads a property of is null.
mjsDeleteThrows(v) ==
    /\ has(v)
    /\ firstNode # lastNode
    /\ LET node == setMap[v]
           p == heap[node].prevNode
           n == heap[node].nextNode
       IN  IF firstNode = node THEN n = null
           ELSE IF lastNode = node THEN p = null
           ELSE p = null \/ n = null

\* delete(value) of the .mjs: the heap, map and references after the call
mjsDeleteHeap(v) ==
    IF ~has(v) \/ firstNode = lastNode THEN heap
    ELSE LET node == setMap[v]
             p == heap[node].prevNode
             n == heap[node].nextNode
         IN  IF firstNode = node
             THEN (IF n = null THEN heap ELSE [heap EXCEPT ![n].prevNode = null])
             ELSE IF lastNode = node
             THEN (IF p = null THEN heap ELSE [heap EXCEPT ![p].nextNode = null])
             ELSE IF p = null THEN heap
             ELSE LET h1 == [heap EXCEPT ![p].nextNode = n] IN
                  IF h1[node].nextNode = null THEN h1
                  ELSE [h1 EXCEPT ![h1[node].nextNode].prevNode = h1[node].prevNode]

mjsDeleteFirstNode(v) ==
    IF ~has(v) THEN firstNode
    ELSE IF firstNode = lastNode THEN null
    ELSE IF firstNode = setMap[v] /\ heap[setMap[v]].nextNode # null
         THEN heap[setMap[v]].nextNode
    ELSE firstNode

mjsDeleteLastNode(v) ==
    IF ~has(v) THEN lastNode
    ELSE IF firstNode = lastNode THEN null
    ELSE IF firstNode = setMap[v] THEN lastNode
    ELSE IF lastNode = setMap[v] /\ heap[setMap[v]].prevNode # null
         THEN heap[setMap[v]].prevNode
    ELSE lastNode

mjsDeleteMap(v) ==
    IF has(v) /\ ~mjsDeleteThrows(v) THEN MapDelete(setMap, v) ELSE setMap

mjsDeleteReturn(v) ==
    IF ~has(v) THEN FALSE
    ELSE IF mjsDeleteThrows(v) THEN "TypeError"
    ELSE MapHas(setMap, v)

\* add(value) of the .mjs
mjsAdd(v) ==
    /\ has(v) \/ Len(heap) < MaxNodes
    /\ heap' = mjsAddHeap(v)
    /\ setMap' = mjsAddMap(v)
    /\ firstNode' = mjsAddFirstNode(v)
    /\ lastNode' = mjsAddLastNode(v)
    /\ lastOp' = [op |-> "add", value |-> v, it |-> 0, ret |-> "this"]
    /\ passed' = passed \cup {v}
    /\ UNCHANGED <<itVars, ctorVars>>

\* addInFront(value) of the .mjs
addInFront(v) ==
    /\ has(v) \/ Len(heap) < MaxNodes
    /\ heap' = addInFrontHeap(v)
    /\ setMap' = addInFrontMap(v)
    /\ firstNode' = addInFrontFirstNode(v)
    /\ lastNode' = addInFrontLastNode(v)
    /\ lastOp' = [op |-> "addInFront", value |-> v, it |-> 0, ret |-> "this"]
    /\ passed' = passed \cup {v}
    /\ UNCHANGED <<itVars, ctorVars>>

\* delete(value) of the .mjs
mjsDelete(v) ==
    /\ heap' = mjsDeleteHeap(v)
    /\ setMap' = mjsDeleteMap(v)
    /\ firstNode' = mjsDeleteFirstNode(v)
    /\ lastNode' = mjsDeleteLastNode(v)
    /\ lastOp' = [op |-> "delete", value |-> v, it |-> 0, ret |-> mjsDeleteReturn(v),
                  threw |-> mjsDeleteThrows(v)]
    /\ UNCHANGED <<itVars, ctorVars, passed>>

\* clear() of the .mjs
mjsClear ==
    /\ setMap' = MapClear
    /\ firstNode' = null
    /\ lastNode' = null
    /\ lastOp' = [op |-> "clear", value |-> undefined, it |-> 0, ret |-> undefined]
    /\ UNCHANGED <<heap, itVars, ctorVars, passed>>

\* The calls of the .mjs that change the set.
NextMjs ==
    \/ \E v \in Values : mjsAdd(v)
    \/ \E v \in Values : addInFront(v)
    \/ \E v \in Values : mjsDelete(v)
    \/ mjsClear

SpecMjs == Init /\ [][NextMjs]_vars

\* values() of the .mjs: _iterableIterator(getIteratorValue) with
\* currentNode = this._firstNode and nextProp = 'next'
mjsValues == iterableIterator("values", undefinedNode)

\* Every walk along the links ends: no node is met twice.
Acyclic ==
    \A n \in 1..Len(heap) :
        /\ Len(walkNext(heap, n, Len(heap) + 1)) <= Len(heap)
        /\ Len(walkPrev(heap, n, Len(heap) + 1)) <= Len(heap)

\* C32: In the .mjs, add(value) and addInFront(value) with a value that is in
\* the set are no-ops: the nodes and the first and last node stay as they
\* are, the chain stays acyclic and doubly consistent, size and the order of
\* the elements are unchanged, and next() of a values() iterator reaches the
\* end of the chain.
C32_MjsAddPresentIsNoOp ==
    [][ (lastOp'.op \in {"add", "addInFront"} /\ has(lastOp'.value))
            => /\ heap' = heap
               /\ firstNode' = firstNode
               /\ lastNode' = lastNode
               /\ size' = size
               /\ Chain' = Chain
               /\ Acyclic'
               /\ C2_ChainDoublyConsistent'
               /\ Len(walkNext(heap', mjsValues'.currentNode, Len(heap') + 1))
                     <= Len(heap') ]_vars

\* In the .mjs a value that is not in the set of a well-formed chain is put
\* behind the last element by add and before the first by addInFront.
Mjs_AddAbsent ==
    [][ (lastOp'.op \in {"add", "addInFront"} /\ ~has(lastOp'.value)
            /\ Acyclic /\ C1_IndexMatchesChain
            /\ C2_ChainDoublyConsistent /\ C3_EndsOfChain)
            => /\ C1_IndexMatchesChain'
               /\ C2_ChainDoublyConsistent' /\ C3_EndsOfChain'
               /\ size' = size + 1
               /\ lastOp'.op = "add"
                    => ChainValues' = Append(ChainValues, lastOp'.value)
               /\ lastOp'.op = "addInFront"
                    => ChainValues' = <<lastOp'.value>> \o ChainValues ]_vars

\* On a well-formed chain delete(value) of the .mjs does what delete of the
\* .ts does, and does not throw.
Mjs_DeleteAsTs ==
    (C1_IndexMatchesChain /\ C2_ChainDoublyConsistent /\ C3_EndsOfChain)
        => \A v \in Values :
              /\ ~mjsDeleteThrows(v)
              /\ mjsDeleteHeap(v) = deleteHeap(v)
              /\ mjsDeleteMap(v) = deleteMap(v)
              /\ mjsDeleteFirstNode(v) = deleteFirstNode(v)
              /\ mjsDeleteLastNode(v) = deleteLastNode(v)
              /\ mjsDeleteReturn(v) = deleteReturn(v)

====
